---------------------------- MODULE Spec2Model ----------------------------
(***************************************************************************)
(* A model of monday.py: the request executor (WorkSpace.post_request and  *)
(* WorkSpace.handle_response_errors) and the polling dispatcher            *)
(* (InputBoard.manager with its Analyzer threads).                         *)
(*                                                                         *)
(* Spec           one call of WorkSpace.post_request against a remote      *)
(*                service that answers every submission with any response  *)
(*                of the bounded response universe.                        *)
(* SpecHandle     one response handed to handle_response_errors.           *)
(* SpecInputBoard InputBoard.manager, the Analyzer threads it starts and   *)
(*                the remote board they talk to; SpecInputBoardFair is the *)
(*                same with a service that answers in the end.             *)
(* SpecWorkSpace  the construction of a WorkSpace.                         *)
(* SpecHydrate    Board.__init__ with the detail payload of a board.       *)
(* SpecBoard      Board(ws, name, exists) on a constructed WorkSpace.      *)
(* SpecRefresh    update_boards_in_ws called on a constructed WorkSpace.   *)
(* SpecAdd        columns, groups and items added to a registered Board.   *)
(***************************************************************************)
EXTENDS Integers, Sequences, FiniteSets, TLC

(***************************************************************************)
(* Bounds of the model.                                                    *)
(***************************************************************************)
\* Longest error list of one response (SpecHandle).
MaxErrors == 2
\* Message tokens of one response (SpecHandle).
MaxTokens == 4
\* Longest error list of one response during a call of post_request (Spec).
MaxRunErrors == 1
\* Message tokens the remote service sends during one call of post_request,
\* all responses together (Spec).
MaxRunTokens == 2
\* Submissions of the query explored for one call (the recursion depth).
MaxSubmit == 3
\* Items a user adds to the input board (SpecInputBoard).
MaxItems == 2
\* Analyzer threads the dispatcher starts (SpecInputBoard).
MaxAnalyzers == 2
MaxBoards == 2
MaxColumns == 2
MaxGroups == 2
MaxPayloadItems == 3
MaxDefaultGroups == 2
\* Objects the user of a Board creates and adds to it (SpecAdd).
MaxAdds == 3
\* Calls of update_boards_in_ws by the user of a WorkSpace (SpecRefresh).
MaxRefresh == 2

(***************************************************************************)
(* Error messages.  A message is a sequence of tokens.  "B" stands for the *)
(* text 'Complexity budget exhausted', "R" for the text 'reset in ', the   *)
(* other tokens are the digit characters "1" and "2".  A character that is *)
(* no digit follows 'reset in ' when the next token is "B" (its 'C').      *)
(***************************************************************************)
DigitChars == {"1", "2"}
Chars == {"B", "R"} \cup DigitChars

\* The first character of the text a token stands for.
FirstChar(tok) == IF tok = "B" THEN "C" ELSE IF tok = "R" THEN "r" ELSE tok

\* str.isdigit on one character.
isdigit(c) == c \in DigitChars

\* int() on one digit character.
int(c) == CASE c = "1" -> 1 [] c = "2" -> 2

\* text in message
Contains(error_message, tok) == \E i \in DOMAIN error_message : error_message[i] = tok

\* message.split('reset in ')[1]: what lies between the first 'reset in '
\* and the next one (or the end of the message).
SplitSecond(error_message) ==
    LET first == CHOOSE i \in DOMAIN error_message :
                    /\ error_message[i] = "R"
                    /\ \A j \in 1..(i - 1) : error_message[j] # "R"
        later == {j \in (first + 1)..Len(error_message) : error_message[j] = "R"}
        stop  == IF later = {} THEN Len(error_message) + 1
                 ELSE CHOOSE j \in later : \A k \in later : j <= k
    IN  SubSeq(error_message, first + 1, stop - 1)

\* 'Complexity budget exhausted' in error_message
IsRateLimit(error_message) == Contains(error_message, "B")

\* int(seconds_to_rest) + 1
RestMutant_NoMargin(c) == int(c)
Rest(c) == int(c) + 1

\* The value handed to sleep(), or the exception raised on the way to it:
\* [kind |-> "int", val |-> n], [kind |-> "str", val |-> c] (the character
\* kept when it is no digit) or [kind |-> "IndexError"] (nothing follows
\* 'reset in ').
seconds_to_rest(error_message) ==
    IF ~Contains(error_message, "R")
    THEN [kind |-> "int", val |-> 5]
    ELSE LET rest == SplitSecond(error_message)
         IN  IF rest = <<>>
             THEN [kind |-> "IndexError", val |-> 0]
             ELSE LET c == FirstChar(rest[1])
                  IN  IF isdigit(c)
                      THEN [kind |-> "int", val |-> Rest(c)]
                      ELSE [kind |-> "str", val |-> 0]

(***************************************************************************)
(* Responses.  A response is the parsed JSON object: the 'errors' key when *)
(* present holds a list of error objects, each with or without a           *)
(* 'message'; the 'data' key when present holds the payload.               *)
(***************************************************************************)
Absent == "absent"
None == "None"
Data == {"d1"}

NoMessage == [hasMessage |-> FALSE, message |-> <<>>]
NoResponse == [hasErrors |-> FALSE, errors |-> <<>>, data |-> Absent]

\* The sum of the first n entries of the sequence of numbers s.
RECURSIVE SumTo(_, _)
SumTo(s, n) == IF n = 0 THEN 0 ELSE s[n] + SumTo(s, n - 1)

\* An error list, given as the text w of all its messages one after the
\* other, the lengths of the k messages, and the positions of the errors that
\* have no 'message' key.
ErrorList(w, lengths, bare) ==
    [i \in DOMAIN lengths |->
        IF i \in bare THEN NoMessage
        ELSE [hasMessage |-> TRUE,
              message |-> SubSeq(w, SumTo(lengths, i - 1) + 1, SumTo(lengths, i))]]

\* The ways to cut a text of t tokens into k messages.
Cuts(k, t) == {lengths \in [1..k -> 0..t] : SumTo(lengths, k) = t}

Tokens(errors) ==
    LET RECURSIVE sum(_)
        sum(i) == IF i > Len(errors) THEN 0 ELSE Len(errors[i].message) + sum(i + 1)
    IN  sum(1)

(***************************************************************************)
(* WorkSpace.handle_response_errors                                        *)
(***************************************************************************)
\* 'errors' in response
ErrorsMutant_NonEmpty(response) == response.hasErrors /\ response.errors # <<>>
ErrorsIndicated(response) == response.hasErrors

\* file1.write(error_message) on errors.txt, opened for appending: the text
\* of the file grows by the characters of the message, nothing in between.
WriteMutant_Dropped(text, error_message) == text
Write(text, error_message) == text \o error_message

\* The loop over the errors from position i on, with what it has written to
\* errors.txt so far.  ret is the returned value ("False": resubmit) or the
\* exception that ends the call; slept is the sleep() calls made.
RECURSIVE scan_errors(_, _, _)
scan_errors(errors, i, text) ==
    IF i > Len(errors)
    THEN [ret |-> "False", slept |-> <<>>, written |-> text]
    ELSE LET error == errors[i] IN
         IF ~error.hasMessage
         THEN scan_errors(errors, i + 1, text)
         ELSE IF IsRateLimit(error.message)
              THEN LET s == seconds_to_rest(error.message) IN
                   CASE s.kind = "int" ->
                          [ret |-> "False", slept |-> <<s.val>>, written |-> text]
                     [] s.kind = "str" ->
                          [ret |-> "TypeError", slept |-> <<>>, written |-> text]
                     [] s.kind = "IndexError" ->
                          [ret |-> "IndexError", slept |-> <<>>, written |-> text]
              ELSE scan_errors(errors, i + 1, Write(text, error.message))

handle_response_errors(response) ==
    IF ErrorsIndicated(response)
    THEN scan_errors(response.errors, 1, <<>>)
    ELSE [ret |-> "True", slept |-> <<>>, written |-> <<>>]



\* How post_request goes on once the response is in: "resubmit" (the
\* recursive call), "data" (the payload is returned), "None" (no 'data': the
\* except branch, nothing is returned) or "raise" (an exception leaves
\* handle_response_errors and post_request).
post_request_outcome(response) ==
    LET h == handle_response_errors(response) IN
    CASE h.ret = "False" -> "resubmit"
      [] h.ret = "True" -> IF response.data # Absent THEN "data" ELSE "None"
      [] OTHER -> "raise"

(***************************************************************************)
(* State.                                                                  *)
(***************************************************************************)
VARIABLES
    pc,          \* post_request: "idle", "send", "wait", "returned", "raised"
    query,       \* the query post_request was called with
    sent,        \* the queries handed to requests.post, in order
    response,    \* the response last received
    handled,     \* what handle_response_errors did with it: [ret, slept, written]
    result,      \* the value post_request returned
    errors_txt,  \* the text of errors.txt, as tokens
    slept,       \* seconds the calling task has been blocked in sleep()
    nErrors,     \* responses with an 'errors' key received so far
    used,        \* message tokens received so far
    remote,      \* the remote board: item id -> [status, group, name]
    mpc,         \* InputBoard.manager: "idle", "polling", "dispatch", "marking",
                 \* "spawn", "sleep", "dead"
    items_json,  \* the items of the last poll
    idx,         \* the position of current_item in items_json
    analyzers,   \* the Analyzer threads started, in order: [item_id, item_name, st]
    marks,       \* item id -> calls of post_request for its in-progress
                 \* mutation that have returned
    spawned,     \* analyser.start() calls since items_json was fetched
    failure,     \* the exception that ended manager, "none" while it runs
    wpc,         \* WorkSpace.__init__ and Board.__init__: where they stand
    boards_limit,  \* WorkSpace.boards_limit
    calls,       \* the calls of post_request made, in order
    boards_names,  \* boards_names['boards'] of the last listing
    bidx,        \* the position of board in boards_names
    boards,      \* WorkSpace.boards: board name -> Board
    self,        \* the Board in __init__: [name, board_id, columns, groups]
    json,        \* its json_columns, json_groups and json_items
    exists,      \* its exists argument
    groups_json, \* the groups of the board, to be deleted
    gidx,        \* the position of group in groups_json
    work_space_id,  \* WorkSpace.work_space_id, "unset" before its assignment
    printed,     \* get_ws_id has printed its message
    ws_error     \* the exception that ended the construction, or "none"

reqVars == <<pc, query, sent, response, handled, result, errors_txt, slept, nErrors, used>>
boardVars == <<remote, mpc, items_json, idx, analyzers, marks, spawned, failure>>
wsVars == <<wpc, boards_limit, calls, boards_names, bidx, boards, self, json, exists,
            groups_json, gidx, work_space_id, printed, ws_error>>
vars == <<reqVars, boardVars, wsVars>>

Queries == {"q1", "q2"}

\* The ids the remote service gives to the items of the board.
Items == 1..MaxItems
\* The titles of the groups of the board; execution_dict has a handler for
\* the first only.
GroupTitles == {"Input Group 1", "Other Group"}
execution_dict == {"Input Group 1"}
\* The name the user gives to item i; names are no ids, two items may
\* bear the same one.
ItemName(i) == IF i % 2 = 1 THEN "hello" ELSE "world"
NotHandled == [ret |-> "none", slept |-> <<>>, written |-> <<>>]

\* No InputBoard has been started.
NoInputBoard ==
    /\ remote = [i \in Items |-> [status |-> "absent", group |-> "none", name |-> "none"]]
    /\ mpc = "idle"
    /\ items_json = <<>>
    /\ idx = 1
    /\ analyzers = <<>>
    /\ marks = [i \in Items |-> 0]
    /\ spawned = 0
    /\ failure = "none"

\* No call of post_request has been made.
NoRequest ==
    /\ pc = "idle"
    /\ query = "none"
    /\ sent = <<>>
    /\ response = NoResponse
    /\ handled = NotHandled
    /\ result = "unset"
    /\ errors_txt = <<>>
    /\ slept = 0
    /\ nErrors = 0
    /\ used = 0

\* A board payload without columns, groups and items.
NoPayload == [json_columns |-> <<>>, json_groups |-> <<>>, json_items |-> <<>>]
\* A Board at the start of __init__: no id yet, no columns, no groups.
NoId == 0
NewBoardObject(n) == [name |-> n, board_id |-> NoId, columns |-> <<>>, groups |-> <<>>]
NoBoard == NewBoardObject("none")

\* No WorkSpace is being constructed.
NoWorkSpace ==
    /\ wpc = "none"
    /\ boards_limit = 0
    /\ calls = <<>>
    /\ boards_names = <<>>
    /\ bidx = 1
    /\ boards = <<>>
    /\ self = NoBoard
    /\ json = NoPayload
    /\ exists = FALSE
    /\ groups_json = <<>>
    /\ gidx = 1
    /\ work_space_id = "unset"
    /\ printed = FALSE
    /\ ws_error = "none"

Init ==
    /\ pc = "idle"
    /\ query = "none"
    /\ sent = <<>>
    /\ response = NoResponse
    /\ handled = NotHandled
    /\ result = "unset"
    /\ errors_txt = <<>>
    /\ slept = 0
    /\ nErrors = 0
    /\ used = 0
    /\ NoInputBoard
    /\ NoWorkSpace

\* A caller invokes post_request(query).
Call(q) ==
    /\ pc = "idle"
    /\ pc' = "send"
    /\ query' = q
    /\ UNCHANGED <<sent, response, handled, result, errors_txt, slept, nErrors, used>>
    /\ UNCHANGED <<boardVars, wsVars>>

\* requests.post(url, json={'query': query}, headers): the query goes out.
Send ==
    /\ pc = "send"
    /\ Len(sent) < MaxSubmit
    /\ sent' = Append(sent, query)
    /\ pc' = "wait"
    /\ UNCHANGED <<query, response, handled, result, errors_txt, slept, nErrors, used>>
    /\ UNCHANGED <<boardVars, wsVars>>

Sum(s) ==
    LET RECURSIVE sum(_)
        sum(i) == IF i > Len(s) THEN 0 ELSE s[i] + sum(i + 1)
    IN  sum(1)

\* The rest of post_request once the response r is in: handle_response_errors,
\* then the recursive call, the return of the payload, or the exception.
Receive(r) ==
    /\ pc = "wait"
    /\ response' = r
    /\ used' = used + Tokens(r.errors)
    /\ nErrors' = IF r.hasErrors THEN nErrors + 1 ELSE nErrors
    /\ LET h == handle_response_errors(r) IN
        /\ handled' = h
        /\ errors_txt' = errors_txt \o h.written
        /\ slept' = slept + Sum(h.slept)
    /\ CASE post_request_outcome(r) = "resubmit" -> pc' = "send" /\ UNCHANGED result
         [] post_request_outcome(r) = "data" -> pc' = "returned" /\ result' = r.data
         [] post_request_outcome(r) = "None" -> pc' = "returned" /\ result' = None
         [] post_request_outcome(r) = "raise" -> pc' = "raised" /\ UNCHANGED result
    /\ UNCHANGED <<query, sent>>
    /\ UNCHANGED <<boardVars, wsVars>>

\* The remote service answers with an error-free response.
AnswerClean ==
    \E d \in Data \cup {Absent} :
        Receive([hasErrors |-> FALSE, errors |-> <<>>, data |-> d])

\* The remote service answers with a response that carries 'errors'.
AnswerErrors(maxErrors, budget) ==
    \E t \in 0..(budget - used), k \in 0..maxErrors :
        \E w \in [1..t -> Chars], lengths \in Cuts(k, t) :
            \E bare \in SUBSET {i \in 1..k : lengths[i] = 0} :
                \E d \in Data \cup {Absent} :
                    Receive([hasErrors |-> TRUE,
                             errors |-> ErrorList(w, lengths, bare),
                             data |-> d])

Next ==
    \/ \E q \in Queries : Call(q)
    \/ Send
    \/ AnswerClean
    \/ AnswerErrors(MaxRunErrors, MaxRunTokens)

Spec == Init /\ [][Next]_vars

(***************************************************************************)
(* SpecHandle: one response to a submitted query, drawn from the larger    *)
(* response universe, and what post_request and handle_response_errors do  *)
(* with it.                                                                *)
(***************************************************************************)
\* What errors.txt may hold from earlier calls.
OldText == {<<>>, <<"2">>}

InitHandle ==
    /\ pc = "wait"
    /\ query \in Queries
    /\ sent = <<query>>
    /\ response = NoResponse
    /\ handled = NotHandled
    /\ result = "unset"
    /\ errors_txt \in OldText
    /\ slept = 0
    /\ nErrors = 0
    /\ used = 0
    /\ NoInputBoard
    /\ NoWorkSpace

NextHandle ==
    \/ AnswerClean
    \/ AnswerErrors(MaxErrors, MaxTokens)

SpecHandle == InitHandle /\ [][NextHandle]_vars

(***************************************************************************)
(* SpecInputBoard: InputBoard.manager, the Analyzer threads and the remote *)
(* board.  The status column created by InputBoard.__init__ is the first   *)
(* column of the board, so column_values[0] of an item is its status.      *)
(* Each call of post_request is followed up to its outcome                 *)
(* (post_request_outcome); the responses are those that neither sleep nor  *)
(* write errors.txt.  The remote service carries a mutation out exactly    *)
(* when its response has a 'data' payload.                                 *)
(***************************************************************************)
CleanData == [hasErrors |-> FALSE, errors |-> <<>>, data |-> "d1"]
CleanNoData == [hasErrors |-> FALSE, errors |-> <<>>, data |-> Absent]
BoardResponses ==
    {CleanData, CleanNoData,
     [hasErrors |-> TRUE, errors |-> <<>>, data |-> Absent],
     [hasErrors |-> TRUE, errors |-> <<>>, data |-> "d1"],
     [hasErrors |-> TRUE,
      errors |-> <<[hasMessage |-> TRUE, message |-> <<"B", "R">>]>>,
      data |-> Absent]}

InitInputBoard ==
    /\ pc = "idle"
    /\ query = "none"
    /\ sent = <<>>
    /\ response = NoResponse
    /\ handled = NotHandled
    /\ result = "unset"
    /\ errors_txt = <<>>
    /\ slept = 0
    /\ nErrors = 0
    /\ used = 0
    /\ NoInputBoard
    /\ NoWorkSpace

\* A user of the remote service adds item i to group g of the board; its
\* status is empty.
UserAddsItem(i, g) ==
    /\ remote[i].status = "absent"
    /\ \A j \in 1..(i - 1) : remote[j].status # "absent"
    /\ remote' = [remote EXCEPT ![i] = [status |-> "empty", group |-> g, name |-> ItemName(i)]]
    /\ UNCHANGED <<mpc, items_json, idx, analyzers, marks, spawned, failure>>
    /\ UNCHANGED <<reqVars, wsVars>>

\* What the remote service answers to the items query: the items of the
\* board with id, name, group and column_values[0]['value'].
ItemsOnBoard ==
    LET present == {i \in Items : remote[i].status # "absent"}
        RECURSIVE list(_)
        list(i) == IF i > MaxItems THEN <<>>
                   ELSE (IF i \in present
                         THEN <<[group |-> remote[i].group, name |-> remote[i].name,
                                 id |-> i, value |-> remote[i].status]>>
                         ELSE <<>>) \o list(i + 1)
    IN  list(1)

\* The remote board once it has carried out change_column_value on item i.
Changed(i, index) == [remote EXCEPT ![i].status = index]

\* manager, top of the loop: post_request sends the items query.
Poll ==
    /\ mpc = "idle"
    /\ mpc' = "polling"
    /\ UNCHANGED <<remote, items_json, idx, analyzers, marks, spawned, failure>>
    /\ UNCHANGED <<reqVars, wsVars>>

\* The items query is answered with r.  A returned None has no ['boards']:
\* TypeError.
PollAnswered(r) ==
    /\ mpc = "polling"
    /\ CASE post_request_outcome(r) = "resubmit" ->
              UNCHANGED <<mpc, items_json, idx, spawned, failure>>
         [] post_request_outcome(r) = "data" ->
              /\ items_json' = ItemsOnBoard
              /\ idx' = 1
              /\ spawned' = 0
              /\ mpc' = "dispatch"
              /\ UNCHANGED failure
         [] post_request_outcome(r) = "None" ->
              /\ mpc' = "dead"
              /\ failure' = "TypeError"
              /\ UNCHANGED <<items_json, idx, spawned>>
         [] post_request_outcome(r) = "raise" ->
              /\ mpc' = "dead"
              /\ failure' = "post_request"
              /\ UNCHANGED <<items_json, idx, spawned>>
    /\ UNCHANGED <<remote, analyzers, marks>>
    /\ UNCHANGED <<reqVars, wsVars>>

\* not current_item['column_values'][0]['value']
UnprocessedMutant_Any(current_item) == current_item.value # "index1"
Unprocessed(current_item) == current_item.value = "empty"

\* The loop over items_json at an unprocessed item: post_request sends the
\* mutation that sets its status to index 0.
DispatchMutant_SpawnFirst == mpc' = "spawn"
DispatchItem == mpc' = "marking"

\* The loop over items_json: past the last item, sleep; past a processed
\* item, go on; at an unprocessed item, DispatchItem.
Dispatch ==
    /\ mpc = "dispatch"
    /\ IF idx > Len(items_json)
       THEN mpc' = "sleep" /\ UNCHANGED idx
       ELSE IF Unprocessed(items_json[idx])
            THEN DispatchItem /\ UNCHANGED idx
            ELSE idx' = idx + 1 /\ UNCHANGED mpc
    /\ UNCHANGED <<remote, items_json, analyzers, marks, spawned, failure>>
    /\ UNCHANGED <<reqVars, wsVars>>

\* The in-progress mutation of current_item is answered with r.
MarkAnswered(r) ==
    /\ mpc = "marking"
    /\ LET i == items_json[idx].id IN
        /\ remote' = IF r.data # Absent THEN Changed(i, "index0") ELSE remote
        /\ CASE post_request_outcome(r) = "resubmit" -> UNCHANGED <<mpc, marks, failure>>
             [] post_request_outcome(r) = "raise" ->
                  mpc' = "dead" /\ failure' = "post_request" /\ UNCHANGED marks
             [] OTHER ->
                  mpc' = "spawn" /\ marks' = [marks EXCEPT ![i] = @ + 1] /\ UNCHANGED failure
    /\ UNCHANGED <<items_json, idx, analyzers, spawned>>
    /\ UNCHANGED <<reqVars, wsVars>>

\* inputs={"item_name": current_item['name']}
inputsMutant_FirstItem(current_item) == items_json[1].name
inputs(current_item) == current_item.name

\* self.execution_dict[current_item['group']['title']] for a title that is no
\* key of execution_dict: KeyError, which ends manager and its thread.
KeyErrorMutant_Skip ==
    /\ mpc' = "dispatch"
    /\ idx' = idx + 1
    /\ UNCHANGED <<analyzers, spawned, failure>>
KeyError ==
    /\ mpc' = "dead"
    /\ failure' = "KeyError"
    /\ UNCHANGED <<analyzers, idx, spawned>>

\* Analyzer(input_board, item_id, function=execution_dict[group title],
\* inputs={"item_name": name}) and analyser.start().
Spawn ==
    /\ mpc = "spawn"
    /\ LET current_item == items_json[idx] IN
        IF current_item.group \in execution_dict
        THEN /\ Len(analyzers) < MaxAnalyzers
             /\ analyzers' = Append(analyzers,
                                [item_id |-> current_item.id,
                                 item_name |-> inputs(current_item),
                                 st |-> "running"])
             /\ spawned' = spawned + 1
             /\ idx' = idx + 1
             /\ mpc' = "dispatch"
             /\ UNCHANGED failure
        ELSE KeyError
    /\ UNCHANGED <<remote, items_json, marks>>
    /\ UNCHANGED <<reqVars, wsVars>>

\* sleep(check_rate) is over.
WakeMutant_Return ==
    /\ mpc = "sleep"
    /\ mpc' = "returned"
    /\ UNCHANGED <<remote, items_json, idx, analyzers, marks, spawned, failure>>
    /\ UNCHANGED <<reqVars, wsVars>>
Wake ==
    /\ mpc = "sleep"
    /\ mpc' = "idle"
    /\ UNCHANGED <<remote, items_json, idx, analyzers, marks, spawned, failure>>
    /\ UNCHANGED <<reqVars, wsVars>>

\* Analyzer.manager: the handler function returns and post_request sends the
\* mutation that sets the status to index 1.
HandlerReturns(a) ==
    /\ analyzers[a].st = "running"
    /\ analyzers' = [analyzers EXCEPT ![a].st = "reporting"]
    /\ UNCHANGED <<remote, mpc, items_json, idx, marks, spawned, failure>>
    /\ UNCHANGED <<reqVars, wsVars>>

\* Analyzer.manager: the handler function raises; run() ends and with it
\* the thread of this Analyzer.
HandlerRaises(a) ==
    /\ analyzers[a].st = "running"
    /\ analyzers' = [analyzers EXCEPT ![a].st = "raised"]
    /\ UNCHANGED <<remote, mpc, items_json, idx, marks, spawned, failure>>
    /\ UNCHANGED <<reqVars, wsVars>>

\* The done mutation of Analyzer a is answered with r.
DoneAnswered(a, r) ==
    /\ analyzers[a].st = "reporting"
    /\ remote' = IF r.data # Absent
                 THEN Changed(analyzers[a].item_id, "index1") ELSE remote
    /\ CASE post_request_outcome(r) = "resubmit" -> UNCHANGED analyzers
         [] post_request_outcome(r) = "raise" ->
              analyzers' = [analyzers EXCEPT ![a].st = "failed"]
         [] OTHER -> analyzers' = [analyzers EXCEPT ![a].st = "done"]
    /\ UNCHANGED <<mpc, items_json, idx, marks, spawned, failure>>
    /\ UNCHANGED <<reqVars, wsVars>>

NextInputBoard ==
    \/ \E i \in Items, g \in GroupTitles : UserAddsItem(i, g)
    \/ Poll
    \/ \E r \in BoardResponses : PollAnswered(r)
    \/ Dispatch
    \/ \E r \in BoardResponses : MarkAnswered(r)
    \/ Spawn
    \/ Wake
    \/ \E a \in DOMAIN analyzers : HandlerReturns(a)
    \/ \E a \in DOMAIN analyzers : HandlerRaises(a)
    \/ \E a \in DOMAIN analyzers, r \in BoardResponses : DoneAnswered(a, r)

SpecInputBoard == InitInputBoard /\ [][NextInputBoard]_vars

(***************************************************************************)
(* SpecInputBoardFair: the dispatcher with a remote service that answers   *)
(* every request in the end and gives every error-free answer its 'data'   *)
(* payload.  The threads of manager and of the requests keep being         *)
(* scheduled: a step of manager that stays possible is taken, a request in *)
(* flight gets its error-free answer unless an exception ends the call     *)
(* first.  Handler functions are under no obligation to end.               *)
(***************************************************************************)
LiveResponses == BoardResponses \ {CleanNoData}

NextInputBoardFair ==
    \/ \E i \in Items, g \in GroupTitles : UserAddsItem(i, g)
    \/ Poll
    \/ \E r \in LiveResponses : PollAnswered(r)
    \/ Dispatch
    \/ \E r \in LiveResponses : MarkAnswered(r)
    \/ Spawn
    \/ Wake
    \/ \E a \in DOMAIN analyzers : HandlerReturns(a)
    \/ \E a \in DOMAIN analyzers : HandlerRaises(a)
    \/ \E a \in DOMAIN analyzers, r \in LiveResponses : DoneAnswered(a, r)

FairInputBoard ==
    /\ WF_vars(Poll)
    /\ WF_vars(PollAnswered(CleanData))
    /\ WF_vars(Dispatch)
    /\ WF_vars(MarkAnswered(CleanData))
    /\ WF_vars(Spawn)
    /\ WF_vars(Wake)

SpecInputBoardFair == InitInputBoard /\ [][NextInputBoardFair]_vars /\ FairInputBoard

(***************************************************************************)
(* WorkSpace and Board.  A dict is the sequence of its <<key, value>>      *)
(* pairs in insertion order; assigning to a key it has replaces the value  *)
(* in place.  Every call of post_request is followed up to its outcome     *)
(* (post_request_outcome): it returns the payload, returns None or raises; *)
(* `calls` lists the calls of post_request in order.                       *)
(***************************************************************************)
Keys(d) == {d[k][1] : k \in DOMAIN d}
Get(d, key) == d[CHOOSE k \in DOMAIN d : d[k][1] = key][2]
PutMutant_FirstWins(d, key, value) ==
    IF key \in Keys(d) THEN d ELSE Append(d, <<key, value>>)
Put(d, key, value) ==
    IF key \in Keys(d)
    THEN [k \in DOMAIN d |-> IF d[k][1] = key THEN <<key, value>> ELSE d[k]]
    ELSE Append(d, <<key, value>>)

\* The sequences over S of length n at most.
Seqs(S, n) == UNION {[1..m -> S] : m \in 0..n}

\* self.name of the WorkSpace, and what board['workspace'] of a listed board
\* may be: None ("none"), a workspace of this name or another one.
WsName == "mine"
Workspaces == {"none", WsName, "other"}
BoardNames == {"b1", "b2"}
ColumnTitles == {"Execution Status", "Date"}
PayloadNames == {"hello", "world"}
\* The ids the service gives to the groups of a new board.
GroupIds == {"topics", "group_1"}
\* The id the service gives to the workspace and to a board it creates; a
\* listed board has its position in the account's listing as id.
WsId == "w1"
NewId == MaxBoards + 1

\* What the service may answer to a boards listing of n boards at most.
Listings(n) ==
    {[k \in DOMAIN l |-> [name |-> l[k][1], id |-> k, workspace |-> l[k][2]]] :
        l \in Seqs(BoardNames \X Workspaces, n)}

\* The detail payloads of a board: columns and groups by title (their ids
\* are their positions), items by group title and name.  An item is in a
\* group of its board.
Payloads(maxC, maxG, maxI) ==
    {p \in [json_columns : Seqs(ColumnTitles, maxC),
            json_groups : Seqs(GroupTitles, maxG),
            json_items : Seqs([group : GroupTitles, name : PayloadNames], maxI)] :
        \A k \in DOMAIN p.json_items :
            \E g \in DOMAIN p.json_groups : p.json_groups[g] = p.json_items[k].group}

\* The detail payloads the construction of a WorkSpace is run with: a board
\* without groups, and two boards with groups.
DetailPayloads ==
    {NoPayload,
     [json_columns |-> <<"Date">>, json_groups |-> <<"Input Group 1">>,
      json_items |-> <<[group |-> "Input Group 1", name |-> "hello"]>>],
     [json_columns |-> <<>>, json_groups |-> <<"Other Group">>, json_items |-> <<>>]}

\* An exception ends the construction: the TypeError of subscripting the
\* None post_request returned, or what post_request raised.
Raise(e) ==
    /\ wpc' = "raised"
    /\ ws_error' = e
Fails(r) ==
    IF post_request_outcome(r) = "None" THEN Raise("TypeError") ELSE Raise("post_request")

\* WorkSpace.__init__ up to the listing query of update_boards_in_ws.
UpdateBoards ==
    /\ wpc = "start"
    /\ boards' = <<>>
    /\ calls' = Append(calls, <<"boards", boards_limit>>)
    /\ wpc' = "listing"
    /\ UNCHANGED <<boards_limit, boards_names, bidx, self, json, exists, groups_json,
                   gidx, work_space_id, printed, ws_error>>
    /\ UNCHANGED <<reqVars, boardVars>>

\* The listing query is answered with r; listing is boards_names['boards'].
ListingAnswered(r, listing) ==
    /\ wpc = "listing"
    /\ CASE post_request_outcome(r) = "resubmit" ->
              UNCHANGED <<wpc, boards_names, bidx, ws_error>>
         [] post_request_outcome(r) = "data" ->
              /\ boards_names' = listing
              /\ bidx' = 1
              /\ wpc' = "loop"
              /\ UNCHANGED ws_error
         [] OTHER -> Fails(r) /\ UNCHANGED <<boards_names, bidx>>
    /\ UNCHANGED <<boards_limit, calls, boards, self, json, exists, groups_json, gidx,
                   work_space_id, printed>>
    /\ UNCHANGED <<reqVars, boardVars>>

\* not board['workspace'] or not board['workspace']['name'] == self.name
OtherWorkspace(board) == board.workspace = "none" \/ board.workspace # WsName

\* The detail query of a listed board: '{ boards (ids:' + board['id'] +
\* ') {id name groups{...} columns{...} items{...} }}', a fixed text around
\* the id of the board.
DetailQueryMutant_WithName(board) == <<"detail", board.id, board.name>>
DetailQuery(board) == <<"detail", board.id>>

\* The loop of update_boards_in_ws: past the last board the method returns,
\* to __init__ where get_ws_id is next, or to the user who called it on the
\* constructed WorkSpace; a board of another workspace is passed; for a
\* board of this workspace the detail query goes out.
NextBoard ==
    /\ wpc = "loop"
    /\ IF bidx > Len(boards_names)
       THEN /\ wpc' = IF work_space_id = "unset" THEN "get_ws_id" ELSE "ready"
            /\ UNCHANGED <<bidx, calls>>
       ELSE IF OtherWorkspace(boards_names[bidx])
            THEN bidx' = bidx + 1 /\ UNCHANGED <<wpc, calls>>
            ELSE /\ calls' = Append(calls, DetailQuery(boards_names[bidx]))
                 /\ wpc' = "detail"
                 /\ UNCHANGED bidx
    /\ UNCHANGED <<boards_limit, boards_names, boards, self, json, exists, groups_json,
                   gidx, work_space_id, printed, ws_error>>
    /\ UNCHANGED <<reqVars, boardVars>>

\* Board.__init__ with exists = False and no json_groups: the create_board
\* query reads work_space.work_space_id, an attribute WorkSpace.__init__
\* assigns only after update_boards_in_ws.
CreateBoard(n) ==
    IF work_space_id = "unset"
    THEN Raise("AttributeError") /\ UNCHANGED calls
    ELSE /\ calls' = Append(calls, <<"create_board", n, work_space_id>>)
         /\ wpc' = "create"
         /\ UNCHANGED ws_error

\* The detail query is answered with r, payload is boards_data['boards'][0];
\* Board(ws, name, board_id, json_groups, json_columns, json_items) starts:
\* with json_groups it takes the id, without it creates the board.
DetailAnswered(r, payload) ==
    /\ wpc = "detail"
    /\ CASE post_request_outcome(r) = "resubmit" ->
              UNCHANGED <<wpc, json, self, calls, ws_error>>
         [] post_request_outcome(r) = "data" ->
              /\ json' = payload
              /\ IF payload.json_groups # <<>>
                 THEN /\ self' = [NewBoardObject(boards_names[bidx].name)
                                    EXCEPT !.board_id = boards_names[bidx].id]
                      /\ wpc' = "set_columns"
                      /\ UNCHANGED <<calls, ws_error>>
                 ELSE /\ self' = NewBoardObject(boards_names[bidx].name)
                      /\ CreateBoard(boards_names[bidx].name)
         [] OTHER -> Fails(r) /\ UNCHANGED <<json, self, calls>>
    /\ UNCHANGED <<boards_limit, boards_names, bidx, boards, exists, groups_json, gidx,
                   work_space_id, printed>>
    /\ UNCHANGED <<reqVars, boardVars>>

\* Board.set_columns: self.columns[column['title']] = Column(...) for each
\* column of the payload, from the k-th on.
RECURSIVE set_columns(_, _, _)
set_columns(d, json_columns, k) ==
    IF k > Len(json_columns) THEN d
    ELSE set_columns(Put(d, json_columns[k], k), json_columns, k + 1)

\* What the group attribute of an Item may hold: a str, the title of a
\* group, or a Group object, known by its id.
Title(t) == [cls |-> "str", title |-> t]
GroupObject(g) == [cls |-> "Group", group_id |-> g]

\* Group(board, title, group_id) with a group_id: the id is kept, no request
\* is made; the Group has no items yet.
Group(group_id) == [group_id |-> group_id, items |-> <<>>]

\* Item(group, name, item_id) with an item_id: self.group is what it is
\* given as group.
Item(group, name, item_id) == [group |-> group, name |-> name, item_id |-> item_id]

\* Group.add_item: self.items[item.name] = item
add_item(this, new_item) == [this EXCEPT !.items = Put(@, new_item.name, new_item)]

\* Board.set_groups: self.groups[group['title']] = Group(...); the id of a
\* group of the payload is its position.
RECURSIVE set_groups(_, _, _)
set_groups(d, json_groups, k) ==
    IF k > Len(json_groups) THEN d
    ELSE set_groups(Put(d, json_groups[k], Group(k)), json_groups, k + 1)

\* item_group_title = item['group']['title']
item_group_titleMutant_FirstGroup(item) == json.json_groups[1]
item_group_title(item) == item.group

\* Board.set_items: new_item = Item(group=item_group_title, name, item_id)
\* and self.groups[item_group_title].add_item(new_item); the id of an item
\* of the payload is its position k.
RECURSIVE set_items(_, _, _)
set_items(d, json_items, k) ==
    IF k > Len(json_items) THEN d
    ELSE LET new_item == Item(Title(item_group_title(json_items[k])), json_items[k].name, k)
         IN  set_items(Put(d, item_group_title(json_items[k]),
                           add_item(Get(d, item_group_title(json_items[k])), new_item)),
                       json_items, k + 1)

SetColumns ==
    /\ wpc = "set_columns"
    /\ self' = [self EXCEPT !.columns = set_columns(@, json.json_columns, 1)]
    /\ wpc' = "set_groups"
    /\ UNCHANGED <<boards_limit, calls, boards_names, bidx, boards, json, exists,
                   groups_json, gidx, work_space_id, printed, ws_error>>
    /\ UNCHANGED <<reqVars, boardVars>>

SetGroups ==
    /\ wpc = "set_groups"
    /\ self' = [self EXCEPT !.groups = set_groups(@, json.json_groups, 1)]
    /\ wpc' = "set_items"
    /\ UNCHANGED <<boards_limit, calls, boards_names, bidx, boards, json, exists,
                   groups_json, gidx, work_space_id, printed, ws_error>>
    /\ UNCHANGED <<reqVars, boardVars>>

SetItems ==
    /\ wpc = "set_items"
    /\ self' = [self EXCEPT !.groups = set_items(@, json.json_items, 1)]
    /\ wpc' = "hydrated"
    /\ UNCHANGED <<boards_limit, calls, boards_names, bidx, boards, json, exists,
                   groups_json, gidx, work_space_id, printed, ws_error>>
    /\ UNCHANGED <<reqVars, boardVars>>

\* self.boards[board["name"]] = Board(...), and on to the next listed board.
StoreBoard ==
    /\ wpc = "hydrated"
    /\ boards' = Put(boards, boards_names[bidx].name, self)
    /\ bidx' = bidx + 1
    /\ wpc' = "loop"
    /\ UNCHANGED <<boards_limit, calls, boards_names, self, json, exists, groups_json,
                   gidx, work_space_id, printed, ws_error>>
    /\ UNCHANGED <<reqVars, boardVars>>

\* get_ws_id: without boards it prints and returns None, which becomes
\* work_space_id; with boards it asks for the workspace of the first one.
GetWsIdMutant_Retry ==
    /\ wpc = "get_ws_id"
    /\ IF boards = <<>>
       THEN /\ calls' = Append(calls, <<"boards", boards_limit>>)
            /\ wpc' = "listing"
            /\ UNCHANGED <<printed, work_space_id>>
       ELSE /\ calls' = Append(calls, <<"workspace", boards[1][2].board_id>>)
            /\ wpc' = "ws_id"
            /\ UNCHANGED <<printed, work_space_id>>
    /\ UNCHANGED <<boards_limit, boards_names, bidx, boards, self, json, exists,
                   groups_json, gidx, ws_error>>
    /\ UNCHANGED <<reqVars, boardVars>>
GetWsId ==
    /\ wpc = "get_ws_id"
    /\ IF boards = <<>>
       THEN /\ printed' = TRUE
            /\ work_space_id' = None
            /\ wpc' = "ready"
            /\ UNCHANGED calls
       ELSE /\ calls' = Append(calls, <<"workspace", boards[1][2].board_id>>)
            /\ wpc' = "ws_id"
            /\ UNCHANGED <<printed, work_space_id>>
    /\ UNCHANGED <<boards_limit, boards_names, bidx, boards, self, json, exists,
                   groups_json, gidx, ws_error>>
    /\ UNCHANGED <<reqVars, boardVars>>

\* The workspace query is answered with r.
WsIdAnswered(r) ==
    /\ wpc = "ws_id"
    /\ CASE post_request_outcome(r) = "resubmit" -> UNCHANGED <<wpc, work_space_id, ws_error>>
         [] post_request_outcome(r) = "data" ->
              /\ work_space_id' = WsId
              /\ wpc' = "ready"
              /\ UNCHANGED ws_error
         [] OTHER -> Fails(r) /\ UNCHANGED work_space_id
    /\ UNCHANGED <<boards_limit, calls, boards_names, bidx, boards, self, json, exists,
                   groups_json, gidx, printed>>
    /\ UNCHANGED <<reqVars, boardVars>>

(***************************************************************************)
(* SpecWorkSpace: WorkSpace(name, token, boards_limit).                    *)
(***************************************************************************)
InitWorkSpace ==
    /\ NoRequest
    /\ NoInputBoard
    /\ wpc = "start"
    /\ boards_limit \in 1..MaxBoards
    /\ calls = <<>>
    /\ boards_names = <<>>
    /\ bidx = 1
    /\ boards = <<>>
    /\ self = NoBoard
    /\ json = NoPayload
    /\ exists = FALSE
    /\ groups_json = <<>>
    /\ gidx = 1
    /\ work_space_id = "unset"
    /\ printed = FALSE
    /\ ws_error = "none"

NextWorkSpace ==
    \/ UpdateBoards
    \/ \E r \in BoardResponses, listing \in Listings(boards_limit) : ListingAnswered(r, listing)
    \/ NextBoard
    \/ \E r \in BoardResponses, payload \in DetailPayloads : DetailAnswered(r, payload)
    \/ SetColumns
    \/ SetGroups
    \/ SetItems
    \/ StoreBoard
    \/ GetWsId
    \/ \E r \in BoardResponses : WsIdAnswered(r)

SpecWorkSpace == InitWorkSpace /\ [][NextWorkSpace]_vars

(***************************************************************************)
(* SpecHydrate: Board.__init__ with the detail payload of the one board of *)
(* the listing, over all the payloads with groups.                         *)
(***************************************************************************)
InitHydrate ==
    /\ NoRequest
    /\ NoInputBoard
    /\ wpc = "set_columns"
    /\ boards_limit = 1
    /\ boards_names \in {l \in Listings(1) : Len(l) = 1 /\ l[1].workspace = WsName}
    /\ calls = <<<<"boards", 1>>, <<"detail", 1>>>>
    /\ bidx = 1
    /\ boards = <<>>
    /\ json \in {p \in Payloads(MaxColumns, MaxGroups, MaxPayloadItems) : p.json_groups # <<>>}
    /\ self = [NewBoardObject(boards_names[1].name) EXCEPT !.board_id = 1]
    /\ exists = FALSE
    /\ groups_json = <<>>
    /\ gidx = 1
    /\ work_space_id = "unset"
    /\ printed = FALSE
    /\ ws_error = "none"

NextHydrate ==
    \/ SetColumns
    \/ SetGroups
    \/ SetItems
    \/ StoreBoard

SpecHydrate == InitHydrate /\ [][NextHydrate]_vars

(***************************************************************************)
(* Board(ws, name, exists) on a constructed WorkSpace: the board is        *)
(* created on the remote service, or looked up there when exists is True.  *)
(***************************************************************************)
\* Board.__init__(ws, name, exists) without json_groups, up to its first
\* query: create_board, or with exists the listing of the boards.
NewBoard(n, e) ==
    /\ wpc = "ready"
    /\ self' = NewBoardObject(n)
    /\ exists' = e
    /\ IF ~e
       THEN CreateBoard(n)
       ELSE /\ calls' = Append(calls, <<"boards">>)
            /\ wpc' = "exists_listing"
            /\ UNCHANGED ws_error
    /\ UNCHANGED <<boards_limit, boards_names, bidx, boards, json, groups_json, gidx,
                   work_space_id, printed>>
    /\ UNCHANGED <<reqVars, boardVars>>

\* The query for the groups of the board, 'Remove any default groups'.
GroupsQuery(b) == calls' = Append(calls, <<"groups", b>>)

\* create_board is answered with r: the id is kept and the groups of the
\* new board are asked for.
CreateAnswered(r) ==
    /\ wpc = "create"
    /\ CASE post_request_outcome(r) = "resubmit" -> UNCHANGED <<wpc, self, calls, ws_error>>
         [] post_request_outcome(r) = "data" ->
              /\ self' = [self EXCEPT !.board_id = NewId]
              /\ GroupsQuery(NewId)
              /\ wpc' = "enumerate"
              /\ UNCHANGED ws_error
         [] OTHER -> Fails(r) /\ UNCHANGED <<self, calls>>
    /\ UNCHANGED <<boards_limit, boards_names, bidx, boards, json, exists, groups_json,
                   gidx, work_space_id, printed>>
    /\ UNCHANGED <<reqVars, boardVars>>

\* The listing of the exists path is answered with r.
ExistsListingAnswered(r, listing) ==
    /\ wpc = "exists_listing"
    /\ CASE post_request_outcome(r) = "resubmit" ->
              UNCHANGED <<wpc, boards_names, bidx, ws_error>>
         [] post_request_outcome(r) = "data" ->
              /\ boards_names' = listing
              /\ bidx' = 1
              /\ wpc' = "exists_loop"
              /\ UNCHANGED ws_error
         [] OTHER -> Fails(r) /\ UNCHANGED <<boards_names, bidx>>
    /\ UNCHANGED <<boards_limit, calls, boards, self, json, exists, groups_json, gidx,
                   work_space_id, printed>>
    /\ UNCHANGED <<reqVars, boardVars>>

\* The board of the listing that is this one: of this workspace and of
\* this name.
ThisBoardMutant_AnyWorkspace(board) == board.name = self.name
ThisBoard(board) == ~OtherWorkspace(board) /\ board.name = self.name

\* The loop over the listing of the exists path: past the last board the
\* Board goes on without an id; other boards are passed; at the board of
\* this workspace and name its id is taken and its groups are asked for.
ExistsLoop ==
    /\ wpc = "exists_loop"
    /\ IF bidx > Len(boards_names)
       THEN wpc' = "register" /\ UNCHANGED <<bidx, self, calls>>
       ELSE IF ~ThisBoard(boards_names[bidx])
            THEN bidx' = bidx + 1 /\ UNCHANGED <<wpc, self, calls>>
            ELSE /\ self' = [self EXCEPT !.board_id = boards_names[bidx].id]
                 /\ GroupsQuery(boards_names[bidx].id)
                 /\ wpc' = "enumerate"
                 /\ UNCHANGED bidx
    /\ UNCHANGED <<boards_limit, boards_names, boards, json, exists, groups_json, gidx,
                   work_space_id, printed, ws_error>>
    /\ UNCHANGED <<reqVars, boardVars>>

\* The groups query is answered with r; gs is ['boards'][0]['groups'].
GroupsAnswered(r, gs) ==
    /\ wpc = "enumerate"
    /\ CASE post_request_outcome(r) = "resubmit" ->
              UNCHANGED <<wpc, groups_json, gidx, ws_error>>
         [] post_request_outcome(r) = "data" ->
              /\ groups_json' = gs
              /\ gidx' = 1
              /\ wpc' = "delete_loop"
              /\ UNCHANGED ws_error
         [] OTHER -> Fails(r) /\ UNCHANGED <<groups_json, gidx>>
    /\ UNCHANGED <<boards_limit, calls, boards_names, bidx, boards, self, json, exists,
                   work_space_id, printed>>
    /\ UNCHANGED <<reqVars, boardVars>>

\* The loop over the groups: delete_group for each; past the last one (and
\* the break of the exists path) add_board is next.
DeleteLoopMutant_NoCleanup ==
    /\ wpc = "delete_loop"
    /\ wpc' = "register"
    /\ UNCHANGED <<calls, gidx>>
    /\ UNCHANGED <<boards_limit, boards_names, bidx, boards, self, json, exists,
                   groups_json, work_space_id, printed, ws_error>>
    /\ UNCHANGED <<reqVars, boardVars>>
DeleteLoop ==
    /\ wpc = "delete_loop"
    /\ IF gidx > Len(groups_json)
       THEN wpc' = "register" /\ UNCHANGED <<calls, gidx>>
       ELSE /\ calls' = Append(calls, <<"delete_group", self.board_id, groups_json[gidx]>>)
            /\ wpc' = "delete"
            /\ UNCHANGED gidx
    /\ UNCHANGED <<boards_limit, boards_names, bidx, boards, self, json, exists,
                   groups_json, work_space_id, printed, ws_error>>
    /\ UNCHANGED <<reqVars, boardVars>>

\* delete_group is answered with r; what post_request returns is not used.
DeleteAnsweredMutant_FirstOnly(r) ==
    /\ wpc = "delete"
    /\ gidx' = gidx + 1
    /\ wpc' = "register"
    /\ UNCHANGED <<boards_limit, calls, boards_names, bidx, boards, self, json, exists,
                   groups_json, work_space_id, printed, ws_error>>
    /\ UNCHANGED <<reqVars, boardVars>>
DeleteAnswered(r) ==
    /\ wpc = "delete"
    /\ CASE post_request_outcome(r) = "resubmit" -> UNCHANGED <<wpc, gidx, ws_error>>
         [] post_request_outcome(r) = "raise" -> Fails(r) /\ UNCHANGED gidx
         [] OTHER -> gidx' = gidx + 1 /\ wpc' = "delete_loop" /\ UNCHANGED ws_error
    /\ UNCHANGED <<boards_limit, calls, boards_names, bidx, boards, self, json, exists,
                   groups_json, work_space_id, printed>>
    /\ UNCHANGED <<reqVars, boardVars>>

\* self.work_space.add_board(self): boards[board.name] = board.
Register ==
    /\ wpc = "register"
    /\ boards' = Put(boards, self.name, self)
    /\ wpc' = "registered"
    /\ UNCHANGED <<boards_limit, calls, boards_names, bidx, self, json, exists,
                   groups_json, gidx, work_space_id, printed, ws_error>>
    /\ UNCHANGED <<reqVars, boardVars>>

\* The lists of groups the service may answer: no id twice.
GroupLists ==
    {gs \in Seqs(GroupIds, MaxDefaultGroups) : \A i, j \in DOMAIN gs : gs[i] = gs[j] => i = j}

(***************************************************************************)
(* SpecBoard: one Board(ws, name, exists) on a WorkSpace that has been     *)
(* constructed, without boards (its id is None) or with one hydrated board.*)
(***************************************************************************)
InitBoard ==
    /\ NoRequest
    /\ NoInputBoard
    /\ wpc = "ready"
    /\ boards_limit = MaxBoards
    /\ calls = <<>>
    /\ boards_names = <<>>
    /\ bidx = 1
    /\ \/ /\ boards = <<>>
          /\ work_space_id = None
          /\ printed = TRUE
       \/ /\ boards = <<<<"b1", [NewBoardObject("b1") EXCEPT
                                    !.board_id = 1,
                                    !.groups = <<<<"Input Group 1", Group(1)>>>>]>>>>
          /\ work_space_id = WsId
          /\ printed = FALSE
    /\ self = NoBoard
    /\ json = NoPayload
    /\ exists = FALSE
    /\ groups_json = <<>>
    /\ gidx = 1
    /\ ws_error = "none"

NextBoardInit ==
    \/ \E n \in BoardNames, e \in BOOLEAN : NewBoard(n, e)
    \/ \E r \in BoardResponses : CreateAnswered(r)
    \/ \E r \in BoardResponses, listing \in Listings(MaxBoards) : ExistsListingAnswered(r, listing)
    \/ ExistsLoop
    \/ \E r \in BoardResponses, gs \in GroupLists : GroupsAnswered(r, gs)
    \/ DeleteLoop
    \/ \E r \in BoardResponses : DeleteAnswered(r)
    \/ Register

SpecBoard == InitBoard /\ [][NextBoardInit]_vars

(***************************************************************************)
(* update_boards_in_ws called by the user of a constructed WorkSpace, to   *)
(* bring its boards up to date with the remote service.                    *)
(***************************************************************************)
\* ws.update_boards_in_ws() up to its listing query.
Refresh ==
    /\ wpc = "ready"
    /\ Len(SelectSeq(calls, LAMBDA c : c[1] = "boards")) < MaxRefresh
    /\ boards' = <<>>
    /\ calls' = Append(calls, <<"boards", boards_limit>>)
    /\ wpc' = "listing"
    /\ UNCHANGED <<boards_limit, boards_names, bidx, self, json, exists, groups_json,
                   gidx, work_space_id, printed, ws_error>>
    /\ UNCHANGED <<reqVars, boardVars>>

\* Board.__init__ has returned through add_board to update_boards_in_ws:
\* self.boards[board["name"]] = Board(...), and on to the next listed board.
StoreCreated ==
    /\ wpc = "registered"
    /\ boards' = Put(boards, boards_names[bidx].name, self)
    /\ bidx' = bidx + 1
    /\ wpc' = "loop"
    /\ UNCHANGED <<boards_limit, calls, boards_names, self, json, exists, groups_json,
                   gidx, work_space_id, printed, ws_error>>
    /\ UNCHANGED <<reqVars, boardVars>>

(***************************************************************************)
(* SpecRefresh: a WorkSpace constructed with boards_limit = 1, without     *)
(* boards (its id is None) or with one hydrated board, whose user calls    *)
(* update_boards_in_ws.                                                    *)
(***************************************************************************)
InitRefresh ==
    /\ NoRequest
    /\ NoInputBoard
    /\ wpc = "ready"
    /\ boards_limit = 1
    /\ calls = <<>>
    /\ boards_names = <<>>
    /\ bidx = 1
    /\ \/ /\ boards = <<>>
          /\ work_space_id = None
          /\ printed = TRUE
       \/ /\ boards = <<<<"b1", [NewBoardObject("b1") EXCEPT
                                    !.board_id = 1,
                                    !.groups = <<<<"Input Group 1", Group(1)>>>>]>>>>
          /\ work_space_id = WsId
          /\ printed = FALSE
    /\ self = NoBoard
    /\ json = NoPayload
    /\ exists = FALSE
    /\ groups_json = <<>>
    /\ gidx = 1
    /\ ws_error = "none"

NextRefresh ==
    \/ Refresh
    \/ \E r \in BoardResponses, listing \in Listings(boards_limit) : ListingAnswered(r, listing)
    \/ NextBoard
    \/ \E r \in BoardResponses, payload \in DetailPayloads : DetailAnswered(r, payload)
    \/ SetColumns
    \/ SetGroups
    \/ SetItems
    \/ StoreBoard
    \/ \E r \in BoardResponses : CreateAnswered(r)
    \/ \E r \in BoardResponses, gs \in GroupLists : GroupsAnswered(r, gs)
    \/ DeleteLoop
    \/ \E r \in BoardResponses : DeleteAnswered(r)
    \/ Register
    \/ StoreCreated

SpecRefresh == InitRefresh /\ [][NextRefresh]_vars

(***************************************************************************)
(* Columns, groups and items added to a registered Board by its user:      *)
(* board.add_column(Column(board, title, ...)), board.add_group(Group(     *)
(* board, title)) and group.add_item(Item(group, name)).  Constructed      *)
(* without an id, each of the three creates its object on the remote       *)
(* service first; the id the service gives to the object a call creates is *)
(* the number of that call.                                                *)
(***************************************************************************)
\* Board.add_column: self.columns[column.title] = column
add_column(this, title, column) == [this EXCEPT !.columns = Put(@, title, column)]
\* Board.add_group: self.groups[group.title] = group
add_group(this, title, group) == [this EXCEPT !.groups = Put(@, title, group)]

\* The query of a constructor reads board.board_id, an attribute a Board
\* without a remote id does not have: AttributeError.
Create(call) ==
    IF self.board_id = NoId
    THEN /\ wpc' = "raised"
         /\ ws_error' = "AttributeError"
         /\ UNCHANGED calls
    ELSE /\ calls' = Append(calls, call)
         /\ wpc' = call[1]
         /\ UNCHANGED ws_error

\* Column(board, title, description, column_type) without column_id.
CreateColumn(t) ==
    /\ wpc = "registered"
    /\ Len(calls) < MaxAdds
    /\ Create(<<"create_column", self.board_id, t>>)
    /\ UNCHANGED <<boards_limit, boards_names, bidx, boards, self, json, exists,
                   groups_json, gidx, work_space_id, printed>>
    /\ UNCHANGED <<reqVars, boardVars>>

\* create_column is answered with r: ['create_column']['id'] is the
\* column_id, and board.add_column(column) follows.
CreateColumnAnswered(r) ==
    /\ wpc = "create_column"
    /\ CASE post_request_outcome(r) = "resubmit" -> UNCHANGED <<wpc, self, boards, ws_error>>
         [] post_request_outcome(r) = "data" ->
              /\ self' = add_column(self, calls[Len(calls)][3], Len(calls))
              /\ boards' = Put(boards, self.name, self')
              /\ wpc' = "registered"
              /\ UNCHANGED ws_error
         [] OTHER -> Fails(r) /\ UNCHANGED <<self, boards>>
    /\ UNCHANGED <<boards_limit, calls, boards_names, bidx, json, exists, groups_json,
                   gidx, work_space_id, printed>>
    /\ UNCHANGED <<reqVars, boardVars>>

\* Group(board, title) without group_id.
CreateGroup(t) ==
    /\ wpc = "registered"
    /\ Len(calls) < MaxAdds
    /\ Create(<<"create_group", self.board_id, t>>)
    /\ UNCHANGED <<boards_limit, boards_names, bidx, boards, self, json, exists,
                   groups_json, gidx, work_space_id, printed>>
    /\ UNCHANGED <<reqVars, boardVars>>

\* create_group is answered with r: ['create_group']['id'] is the group_id,
\* and board.add_group(group) follows.
CreateGroupAnswered(r) ==
    /\ wpc = "create_group"
    /\ CASE post_request_outcome(r) = "resubmit" -> UNCHANGED <<wpc, self, boards, ws_error>>
         [] post_request_outcome(r) = "data" ->
              /\ self' = add_group(self, calls[Len(calls)][3], Group(Len(calls)))
              /\ boards' = Put(boards, self.name, self')
              /\ wpc' = "registered"
              /\ UNCHANGED ws_error
         [] OTHER -> Fails(r) /\ UNCHANGED <<self, boards>>
    /\ UNCHANGED <<boards_limit, calls, boards_names, bidx, json, exists, groups_json,
                   gidx, work_space_id, printed>>
    /\ UNCHANGED <<reqVars, boardVars>>

\* Item(group=board.groups[g], name=n) without item_id: the query carries
\* the id of the board and the id of that group.
CreateItem(g, n) ==
    /\ wpc = "registered"
    /\ Len(calls) < MaxAdds
    /\ g \in Keys(self.groups)
    /\ Create(<<"create_item", self.board_id, Get(self.groups, g).group_id, n>>)
    /\ UNCHANGED <<boards_limit, boards_names, bidx, boards, self, json, exists,
                   groups_json, gidx, work_space_id, printed>>
    /\ UNCHANGED <<reqVars, boardVars>>

\* create_item is answered with r: ['create_item']['id'] is the item_id,
\* and board.groups[target].add_item(item) follows, target being the group
\* the user calls add_item on.
CreateItemAnswered(r, target) ==
    /\ wpc = "create_item"
    /\ target \in Keys(self.groups)
    /\ CASE post_request_outcome(r) = "resubmit" -> UNCHANGED <<wpc, self, boards, ws_error>>
         [] post_request_outcome(r) = "data" ->
              /\ self' = add_group(self, target,
                             add_item(Get(self.groups, target),
                                      Item(GroupObject(calls[Len(calls)][3]),
                                           calls[Len(calls)][4], Len(calls))))
              /\ boards' = Put(boards, self.name, self')
              /\ wpc' = "registered"
              /\ UNCHANGED ws_error
         [] OTHER -> Fails(r) /\ UNCHANGED <<self, boards>>
    /\ UNCHANGED <<boards_limit, calls, boards_names, bidx, json, exists, groups_json,
                   gidx, work_space_id, printed>>
    /\ UNCHANGED <<reqVars, boardVars>>

(***************************************************************************)
(* SpecAdd: a Board registered in its WorkSpace, created there (it has the *)
(* id the service gave it) or constructed with exists when the listing had *)
(* no board of its name (it has no id), and what its user adds to it.      *)
(***************************************************************************)
InitAdd ==
    /\ NoRequest
    /\ NoInputBoard
    /\ wpc = "registered"
    /\ boards_limit = MaxBoards
    /\ calls = <<>>
    /\ boards_names = <<>>
    /\ bidx = 1
    /\ exists \in BOOLEAN
    /\ self = [NewBoardObject("b1") EXCEPT !.board_id = IF exists THEN NoId ELSE NewId]
    /\ boards = <<<<"b1", self>>>>
    /\ work_space_id = None
    /\ printed = TRUE
    /\ json = NoPayload
    /\ groups_json = <<>>
    /\ gidx = 1
    /\ ws_error = "none"

NextAdd ==
    \/ \E t \in ColumnTitles : CreateColumn(t)
    \/ \E r \in BoardResponses : CreateColumnAnswered(r)
    \/ \E t \in GroupTitles : CreateGroup(t)
    \/ \E r \in BoardResponses : CreateGroupAnswered(r)
    \/ \E g \in GroupTitles, n \in PayloadNames : CreateItem(g, n)
    \/ \E r \in BoardResponses, target \in GroupTitles : CreateItemAnswered(r, target)

SpecAdd == InitAdd /\ [][NextAdd]_vars

\* The Analyzer threads started for item i.
Spawned(i) == Cardinality({a \in DOMAIN analyzers : analyzers[a].item_id = i})

C10_DispatchedAtMostOnce ==
    \A i \in Items : Spawned(i) <= 1

(***************************************************************************)
(* Vocabulary of the properties.                                           *)
(***************************************************************************)
\* The response in `response` has been handled.
Handled == handled # NotHandled

\* A rate-limit error: it has a message and the message holds the pattern.
RateLimitError(e) == e.hasMessage /\ \E i \in DOMAIN e.message : e.message[i] = "B"

\* The position of the first rate-limit error of the list, 0 when none.
FirstRateLimit(errors) ==
    IF \E i \in DOMAIN errors : RateLimitError(errors[i])
    THEN CHOOSE i \in DOMAIN errors :
            /\ RateLimitError(errors[i])
            /\ \A j \in 1..(i - 1) : ~RateLimitError(errors[j])
    ELSE 0

\* The position of the first 'reset in ' of the message, 0 when none.
FirstReset(m) ==
    IF \E i \in DOMAIN m : m[i] = "R"
    THEN CHOOSE i \in DOMAIN m : m[i] = "R" /\ \A j \in 1..(i - 1) : m[j] # "R"
    ELSE 0

DigitValue(c) == IF c = "1" THEN 1 ELSE 2

\* A digit stands right after the first 'reset in ' of the message.
DigitAfterFirstReset(m) ==
    /\ FirstReset(m) # 0
    /\ FirstReset(m) < Len(m)
    /\ m[FirstReset(m) + 1] \in {"1", "2"}

\* The number written in the digits from position i of the message on,
\* read after the digits worth acc.
RECURSIVE Decimal(_, _, _)
Decimal(m, i, acc) ==
    IF i <= Len(m) /\ m[i] \in {"1", "2"}
    THEN Decimal(m, i + 1, 10 * acc + DigitValue(m[i]))
    ELSE acc

\* The messages of the errors that are no rate-limit errors, among the first
\* n errors of the list, one after the other.
RECURSIVE OtherMessages(_, _)
OtherMessages(errors, n) ==
    IF n = 0 THEN <<>>
    ELSE OtherMessages(errors, n - 1) \o
           (IF errors[n].hasMessage /\ ~RateLimitError(errors[n])
            THEN errors[n].message ELSE <<>>)

(***************************************************************************)
(* C1.  As claimed: whenever the error list of a handled response holds a  *)
(* rate-limit error in whose message a digit d follows a 'reset in ', the  *)
(* task has slept exactly d + 1 seconds and handle_response_errors         *)
(* returned False.                                                         *)
(***************************************************************************)
C1_AnyRateLimitDigit ==
    (Handled /\ response.hasErrors) =>
        \A i \in DOMAIN response.errors :
            RateLimitError(response.errors[i]) =>
                LET m == response.errors[i].message IN
                \A j \in 1..(Len(m) - 1) :
                    (m[j] = "R" /\ m[j + 1] \in {"1", "2"}) =>
                        /\ handled.ret = "False"
                        /\ handled.slept = <<DigitValue(m[j + 1]) + 1>>

(***************************************************************************)
(* C1 as amended: when the first rate-limit error of the list has a digit  *)
(* d right after the first 'reset in ' of its message, the task sleeps     *)
(* once, for exactly d + 1 seconds, and handle_response_errors returns     *)
(* False.                                                                  *)
(***************************************************************************)
C1_FirstRateLimitDigit ==
    (Handled /\ response.hasErrors /\ FirstRateLimit(response.errors) # 0) =>
        LET m == response.errors[FirstRateLimit(response.errors)].message IN
        DigitAfterFirstReset(m) =>
            /\ handled.ret = "False"
            /\ handled.slept = <<DigitValue(m[FirstReset(m) + 1]) + 1>>
            /\ slept = DigitValue(m[FirstReset(m) + 1]) + 1
            /\ pc = "send"

C1_Witness ==
    /\ Handled
    /\ response.hasErrors
    /\ response.errors = <<[hasMessage |-> TRUE, message |-> <<"1">>],
                           [hasMessage |-> TRUE, message |-> <<"B", "R", "2">>]>>
    /\ handled.slept = <<3>>
    /\ pc = "send"

(***************************************************************************)
(* C2.  When the first rate-limit error of the list has no digit right     *)
(* after 'reset in ' (no 'reset in ' at all, another character after it,   *)
(* or the end of the message), the wait is exactly 5 seconds.              *)
(***************************************************************************)
C2_DefaultFiveWithoutDigit ==
    (Handled /\ response.hasErrors /\ FirstRateLimit(response.errors) # 0) =>
        LET m == response.errors[FirstRateLimit(response.errors)].message IN
        ~DigitAfterFirstReset(m) =>
            /\ handled.ret = "False"
            /\ handled.slept = <<5>>

(***************************************************************************)
(* C3.  On a rate-limit error the wait is the number stated after          *)
(* 'reset in ', all its digits, plus 1 second.                             *)
(***************************************************************************)
C3_WaitIsStatedDurationPlusOne ==
    (Handled /\ response.hasErrors /\ FirstRateLimit(response.errors) # 0) =>
        LET m == response.errors[FirstRateLimit(response.errors)].message IN
        DigitAfterFirstReset(m) =>
            /\ handled.ret = "False"
            /\ handled.slept = <<Decimal(m, FirstReset(m) + 1, 0) + 1>>

(***************************************************************************)
(* C5.  As claimed: when handle_response_errors asks for the resubmission, *)
(* errors.txt has grown by the message of every error of the list that is  *)
(* no rate-limit error, wherever it stands in the list.                    *)
(***************************************************************************)
C5_EveryOtherErrorLogged ==
    [][(pc = "wait" /\ pc' = "send") =>
          errors_txt' = errors_txt \o
                          OtherMessages(response'.errors, Len(response'.errors))]_vars

(***************************************************************************)
(* C5 as amended: handling a response appends to errors.txt, verbatim and  *)
(* in list order, the messages of the errors that are no rate-limit errors *)
(* and stand before the first rate-limit error of the list (all of them    *)
(* when the list has none), and nothing else; the step submits nothing.    *)
(***************************************************************************)
C5_OtherErrorsBeforeRateLimitLogged ==
    [][(pc = "wait" /\ pc' # "wait") =>
          LET errors == response'.errors
              upTo   == IF FirstRateLimit(errors) = 0 THEN Len(errors)
                        ELSE FirstRateLimit(errors) - 1
          IN  /\ errors_txt' = errors_txt \o OtherMessages(errors, upTo)
              /\ sent' = sent]_vars

C5_Witness ==
    /\ Handled
    /\ response.hasErrors
    /\ response.errors = <<[hasMessage |-> TRUE, message |-> <<"1", "R">>],
                           [hasMessage |-> TRUE, message |-> <<"B">>]>>
    /\ errors_txt = <<"2", "1", "R">>
    /\ pc = "send"

(***************************************************************************)
(* C4.  Every response that carries 'errors' is followed by exactly one    *)
(* resubmission of the same query: with k such responses received the      *)
(* query has been submitted k times when the next submission is due and    *)
(* k + 1 times once it is out or the call has returned, and the call ends  *)
(* in no other way.                                                        *)
(***************************************************************************)
C4_OneSubmissionPerErrorResponse ==
    /\ pc # "raised"
    /\ pc = "send" => Len(sent) = nErrors
    /\ pc \in {"wait", "returned"} => Len(sent) = nErrors + 1
    /\ \A i \in DOMAIN sent : sent[i] = query

C7_EndsOnlyOnErrorFreeResponse ==
    pc \in {"returned", "raised"} => ~response.hasErrors

(***************************************************************************)
(* C8.  A response with a rate-limit error, whatever its message, makes    *)
(* the executor sleep and resubmit; no exception reaches the caller.       *)
(***************************************************************************)
C8_RateLimitNeverSurfaces ==
    (Handled /\ response.hasErrors /\ FirstRateLimit(response.errors) # 0) =>
        /\ handled.ret = "False"
        /\ Len(handled.slept) = 1
        /\ pc # "raised"

(***************************************************************************)
(* Vocabulary of the dispatcher's properties.                              *)
(***************************************************************************)
\* The items among the first n of the snapshot whose first column value is
\* empty.
EmptyAmong(n) ==
    Cardinality({k \in 1..n : k <= Len(items_json) /\ items_json[k].value = "empty"})
\* The done mutation of Analyzer a has been issued.
DoneIssued(a) == analyzers[a].st \in {"reporting", "done", "failed"}

C13_RaisedItemStaysInProgress ==
    \A a \in DOMAIN analyzers :
        analyzers[a].st = "raised" => remote[analyzers[a].item_id].status = "index0"

Range(s) == {s[k] : k \in DOMAIN s}
\* The positions of the listed boards whose workspace bears the name of
\* this WorkSpace.
MatchingBoards == {k \in DOMAIN boards_names : boards_names[k].workspace = "mine"}
\* The calls of post_request for the query op, in order.
CallsOf(op) == SelectSeq(calls, LAMBDA c : c[1] = op)
\* The names of the payload's items that are in group g.
NamesIn(g) == {json.json_items[k].name :
                  k \in {j \in DOMAIN json.json_items : json.json_items[j].group = g}}
\* The delete_group calls for the groups of groups_json on board b.
DeletesOf(b) == [k \in DOMAIN groups_json |-> <<"delete_group", b, groups_json[k]>>]

(***************************************************************************)
(* C16.  Hydration builds the columns, then the groups, then the items:    *)
(* when set_groups is next the column mapping has exactly the payload's    *)
(* column titles as keys and there is no group yet; when set_items is next *)
(* the group mapping has exactly the payload's group titles as keys and    *)
(* no group has an item yet; once hydrated, every group's item mapping has *)
(* exactly the names of the payload's items of that group as keys, and     *)
(* every item stored is stored in the group and under the name of its own  *)
(* payload entry.  The Board stored in the WorkSpace is that Board.        *)
(***************************************************************************)
C16_HydrationOrderAndKeySets ==
    /\ wpc = "set_columns" => (self.columns = <<>> /\ self.groups = <<>>)
    /\ wpc \in {"set_groups", "set_items", "hydrated"} =>
          Keys(self.columns) = Range(json.json_columns)
    /\ wpc = "set_groups" => self.groups = <<>>
    /\ wpc \in {"set_items", "hydrated"} =>
          Keys(self.groups) = Range(json.json_groups)
    /\ wpc = "set_items" => \A g \in Keys(self.groups) : Get(self.groups, g).items = <<>>
    /\ wpc = "hydrated" =>
          \A g \in Keys(self.groups) :
              /\ Keys(Get(self.groups, g).items) = NamesIn(g)
              /\ \A n \in Keys(Get(self.groups, g).items) :
                    /\ json.json_items[Get(Get(self.groups, g).items, n).item_id].group = g
                    /\ json.json_items[Get(Get(self.groups, g).items, n).item_id].name = n
    /\ (wpc = "loop" /\ bidx = 2) =>
          /\ Keys(boards) = {self.name}
          /\ Get(boards, self.name) = self
          /\ Keys(self.columns) = Range(json.json_columns)
          /\ Keys(self.groups) = Range(json.json_groups)
          /\ \A g \in Keys(self.groups) : Keys(Get(self.groups, g).items) = NamesIn(g)

C16_Witness ==
    /\ wpc = "loop"
    /\ Len(boards) = 1
    /\ Len(json.json_columns) = 2
    /\ json.json_groups = <<"Other Group", "Input Group 1">>
    /\ Len(json.json_items) = 3
    /\ Keys(Get(self.groups, "Input Group 1").items) = {"hello", "world"}
    /\ Keys(Get(self.groups, "Other Group").items) = {"hello"}

(***************************************************************************)
(* C17 as stated.  Once the construction of the WorkSpace has ended, by    *)
(* its return or by the exception of Board.__init__, the calls made are    *)
(* the listing with the configured limit, then one detail fetch for each   *)
(* listed board of this workspace and for no other, in the order of the    *)
(* listing, and the board mapping has exactly the names of those boards    *)
(* as keys.                                                                *)
(***************************************************************************)
C17_OneDetailFetchPerMatchingBoard ==
    (wpc = "ready" \/ ws_error = "AttributeError") =>
        /\ calls[1] = <<"boards", boards_limit>>
        /\ Len(CallsOf("boards")) = 1
        /\ Len(boards_names) <= boards_limit
        /\ Len(CallsOf("detail")) = Cardinality(MatchingBoards)
        /\ \A k \in MatchingBoards :
              \E j \in DOMAIN CallsOf("detail") : CallsOf("detail")[j] = <<"detail", k>>
        /\ Keys(boards) = {boards_names[k].name : k \in MatchingBoards}

(***************************************************************************)
(* C18.  A Board constructed without remote data and without exists is     *)
(* registered in its WorkSpace, under its name, only at the end: by then   *)
(* the calls made are create_board, the query for the groups of the board  *)
(* with the id create_board returned, and one delete_group for each group  *)
(* returned, in that order, and the Board holds that id.  Nothing changes  *)
(* the board mapping before.                                               *)
(***************************************************************************)
C18_CreateEnumerateDeleteRegister ==
    /\ []((wpc = "registered" /\ ~exists) =>
            /\ calls = <<<<"create_board", self.name, work_space_id>>,
                         <<"groups", NewId>>>> \o DeletesOf(NewId)
            /\ self.board_id = NewId
            /\ self.name \in Keys(boards)
            /\ Get(boards, self.name) = self)
    /\ []((~exists /\ wpc \in {"create", "enumerate", "delete_loop", "delete", "register"}) =>
            /\ calls[1] = <<"create_board", self.name, work_space_id>>
            /\ wpc # "create" => (self.board_id = NewId /\ calls[2] = <<"groups", NewId>>)
            /\ wpc = "register" => Len(calls) = 2 + Len(groups_json))
    /\ [][boards' # boards => (wpc = "register" /\ wpc' = "registered")]_vars

C18_Witness ==
    /\ wpc = "registered"
    /\ ~exists
    /\ Len(groups_json) = 2
    /\ Len(calls) = 4
    /\ Len(boards) = 2

(***************************************************************************)
(* C19.  A Board constructed with exists never has a create_board call     *)
(* made; once the listing has been searched, its id is the id of the first *)
(* listed board that is of this workspace and bears its name, when the     *)
(* listing has such a board.                                               *)
(***************************************************************************)
C19_ExistsRecoversIdWithoutCreate ==
    exists =>
        /\ CallsOf("create_board") = <<>>
        /\ wpc \in {"enumerate", "delete_loop", "delete", "register", "registered"} =>
              \A k \in DOMAIN boards_names :
                  (/\ boards_names[k].workspace = "mine"
                   /\ boards_names[k].name = self.name
                   /\ \A j \in 1..(k - 1) :
                         ~(boards_names[j].workspace = "mine" /\ boards_names[j].name = self.name))
                      => self.board_id = boards_names[k].id

C19_Witness ==
    /\ wpc = "registered"
    /\ exists
    /\ Len(boards_names) = 2
    /\ boards_names[1].name = self.name
    /\ boards_names[1].workspace = "other"
    /\ boards_names[2].name = self.name
    /\ boards_names[2].workspace = "mine"
    /\ self.board_id = 2

(***************************************************************************)
(* C20.  When no board is in the board mapping, get_ws_id prints its       *)
(* message and returns None without a call of post_request: the            *)
(* constructed WorkSpace has made the listing call and no other, its id is *)
(* None; and the listing is never asked for a second time.                 *)
(***************************************************************************)
C20_EmptyWorkSpaceReportedNotRetried ==
    /\ (wpc = "ready" /\ boards = <<>>) =>
          /\ printed
          /\ work_space_id = None
          /\ calls = <<<<"boards", boards_limit>>>>
    /\ printed => (boards = <<>> /\ wpc = "ready")
    /\ Len(CallsOf("boards")) <= 1
    /\ (wpc = "ready" /\ MatchingBoards = {}) => boards = <<>>

C20_Witness ==
    /\ wpc = "ready"
    /\ printed
    /\ work_space_id = None
    /\ Len(boards_names) = 2
    /\ boards_names[1].workspace = "other"
    /\ boards_names[2].workspace = "none"
    /\ Len(calls) = 1

(***************************************************************************)
(* Vocabulary of the properties of the mappings.                           *)
(***************************************************************************)
\* Mapping d2 is mapping d after value has been stored under key: key has
\* one entry, which is value; the other keys are those of d, each with the
\* entry it had; no key has two entries.
Stored(d, d2, key, value) ==
    /\ Keys(d2) = Keys(d) \cup {key}
    /\ Len(d2) = Cardinality(Keys(d2))
    /\ \A k \in DOMAIN d2 : d2[k][1] = key => d2[k][2] = value
    /\ \A k \in DOMAIN d2 : d2[k][1] # key =>
          \E j \in DOMAIN d : d[j] = d2[k]

(***************************************************************************)
(* C21.  Whenever a Column is added to a Board, a Group is added to a      *)
(* Board or an Item is added to a Group, the mapping has afterwards        *)
(* exactly one entry for its title (its name, for an Item), which is the   *)
(* object just added, whether or not the mapping had an entry for that     *)
(* title before; the entries of the other titles are as they were.         *)
(***************************************************************************)
C21_LastWriteWins ==
    /\ [][(wpc = "create_column" /\ wpc' = "registered") =>
            /\ Stored(self.columns, self'.columns, calls[Len(calls)][3], Len(calls))
            /\ self'.groups = self.groups]_vars
    /\ [][(wpc = "create_group" /\ wpc' = "registered") =>
            /\ Stored(self.groups, self'.groups, calls[Len(calls)][3], Group(Len(calls)))
            /\ self'.columns = self.columns]_vars
    /\ [][(wpc = "create_item" /\ wpc' = "registered") =>
            /\ self'.columns = self.columns
            /\ Keys(self'.groups) = Keys(self.groups)
            /\ \E target \in Keys(self.groups) :
                  /\ Stored(Get(self.groups, target).items, Get(self'.groups, target).items,
                            calls[Len(calls)][4],
                            Item(GroupObject(calls[Len(calls)][3]), calls[Len(calls)][4],
                                 Len(calls)))
                  /\ Get(self'.groups, target).group_id = Get(self.groups, target).group_id
                  /\ \A g \in Keys(self.groups) \ {target} :
                        Get(self'.groups, g) = Get(self.groups, g)]_vars

\* A group was added, an item was added to it, and a second group of the
\* same title was added: the mapping has the second group, which has no item.
C21_Witness ==
    /\ wpc = "registered"
    /\ Len(calls) = 3
    /\ calls[1] = <<"create_group", NewId, "Input Group 1">>
    /\ calls[2] = <<"create_item", NewId, 1, "hello">>
    /\ calls[3] = calls[1]
    /\ self.groups = <<<<"Input Group 1", Group(3)>>>>

C23_ItemsReferTheirGroup ==
    \A g \in Keys(self.groups) :
        \A n \in Keys(Get(self.groups, g).items) :
            Get(Get(self.groups, g).items, n).group
                = GroupObject(Get(self.groups, g).group_id)

(***************************************************************************)
(* C24 as stated.  No call of update_boards_in_ws submits a create_board   *)
(* or a delete_group mutation, whatever the listing and the detail         *)
(* payloads are.                                                           *)
(***************************************************************************)
C24_HydrationSubmitsNoMutation ==
    /\ CallsOf("create_board") = <<>>
    /\ CallsOf("delete_group") = <<>>

(***************************************************************************)
(* C25 as stated.  Every Board in the board mapping of the WorkSpace has a *)
(* remote id.                                                              *)
(***************************************************************************)
C25_RegisteredBoardHasId ==
    \A k \in DOMAIN boards : boards[k][2].board_id # NoId

(***************************************************************************)
(* C26 as stated, for the executions in which no exception leaves          *)
(* post_request.  An item whose remote status is in-progress (index 0) has *)
(* an Analyzer started for it, unless it is the item manager is marking or *)
(* about to start the Analyzer of.                                         *)
(***************************************************************************)
C26_MarkedItemHasHandler ==
    failure # "post_request" =>
        \A i \in Items :
            (/\ remote[i].status = "index0"
             /\ ~(mpc \in {"marking", "spawn"} /\ items_json[idx].id = i))
                => Spawned(i) >= 1

(***************************************************************************)
(* C27 as stated.  The done mutation of an Analyzer is issued only after a *)
(* call of post_request for the in-progress mutation of its item has       *)
(* returned; no in-progress mutation is submitted for an item whose done   *)
(* mutation has been issued; and a remote status that is done (index 1)    *)
(* stays done.                                                             *)
(***************************************************************************)
C27_DoneAfterInProgressNeverBack ==
    /\ [](\A a \in DOMAIN analyzers : DoneIssued(a) => marks[analyzers[a].item_id] >= 1)
    /\ [][(mpc # "marking" /\ mpc' = "marking") =>
            ~\E a \in DOMAIN analyzers :
                analyzers[a].item_id = items_json[idx].id /\ DoneIssued(a)]_vars
    /\ [][\A i \in Items :
            remote[i].status = "index1" => remote'[i].status = "index1"]_vars

=============================================================================
